---- MODULE Spec2Model ----
(***************************************************************************)
(* Waste Watch analytics dashboard (src/app.py): one Streamlit script run  *)
(* main() = load_raw_data -> apply_filters -> display_kpis ->              *)
(* render_visualizations (charts, cost forecast, weight forecast).         *)
(*                                                                         *)
(* Timestamps are counted in half days since 2023-01-01 00:00, so that a   *)
(* value carries a calendar date and a time of day (00:00 or 12:00).       *)
(* Calendar dates are counted in days since 2023-01-01.                    *)
(***************************************************************************)
EXTENDS Integers, Sequences, FiniteSets, TLC

VARIABLES
    uploaded_file,   \* the file given to st.sidebar.file_uploader, or NoFile
    pc,              \* position of the script run
    heap,            \* the DataFrame objects: reference -> frame
    df,              \* main(): reference held by df (0 = unbound)
    df_filtered,     \* main(): reference held by df_filtered (0 = unbound)
    filter_spec,     \* the sidebar widgets' values read by apply_filters
    kpis,            \* locals of display_kpis
    divisions,       \* every division evaluated so far: where, divisor
    monthly_chart,   \* render_visualizations: monthly comparison table
    site_cost_chart, \* render_visualizations: cost per kg by site
    forecast_days,   \* st.radio("Select forecast period")
    combined,        \* cost forecast merged with actuals
    combined_w,      \* weight forecast merged with actuals
    started,         \* the pipeline steps entered in this run
    reported,        \* messages shown with st.error / st.warning / st.info
    uncaught         \* the exception that ended the script run, or "none"

vars == <<uploaded_file, pc, heap, df, df_filtered, filter_spec, kpis, divisions,
          monthly_chart, site_cost_chart, forecast_days, combined, combined_w,
          started, reported, uncaught>>

-----------------------------------------------------------------------------
(* Bounds *)

\* Largest number of rows of an uploaded sheet.
MaxRows == 3

-----------------------------------------------------------------------------
(* Values *)

NoFile == [columns |-> {}, rows |-> <<>>, present |-> FALSE]
NoFrame == [cols |-> {}, rows |-> <<>>]
NoKpis == [computed |-> FALSE]
NaN == "NaN"
\* pandas' missing timestamp; never a timestamp of the calendar.
NaT == -1

RequiredColumns == {"Date", "Cost", "Weight"}
OptionalColumns == {"Region", "Site", "Location", "Operator", "Loss Reason",
                    "Stage of Processing"}

\* A Date cell of the sheet: a timestamp, a blank cell, or text that is no date.
Ts(t) == [kind |-> "ts", ts |-> t]
Blank == [kind |-> "blank", ts |-> 0]
Text == [kind |-> "text", ts |-> 0]

RawRow(d, c, w, rg, s, l, o, lr, st) ==
    [Date |-> d, Cost |-> c, Weight |-> w, Region |-> rg, Site |-> s,
     Location |-> l, Operator |-> o, LossReason |-> lr, Stage |-> st]

\* The rows a sheet is made of.  728 = 2023-12-31 00:00, 730 = 2024-01-01 00:00,
\* 731 = 2024-01-01 12:00, 792 = 2024-02-01 00:00.
RowPool ==
    { RawRow(Ts(728), 10, 0, "North", "A", "Kitchen", "Ann", "Spoilage", "Pre-Consumer"),
      RawRow(Ts(730), 5, 2, "North", "B", NaN, "Ann", "Overproduction", "Post-Consumer"),
      RawRow(Ts(731), 4, 4, "South", "A", "Kitchen", NaN, "Spoilage", "Pre-Consumer"),
      RawRow(Ts(792), 3, 1, "South", "B", "Bar", "Ann", NaN, "Post-Consumer"),
      RawRow(Blank, 1, 1, NaN, NaN, NaN, NaN, NaN, "Pre-Consumer"),
      RawRow(Text, 2, 2, "North", "A", "Kitchen", "Ann", "Spoilage", "Pre-Consumer") }

RECURSIVE SeqsUpTo(_, _)
SeqsUpTo(S, n) ==
    IF n = 0 THEN {<<>>}
    ELSE LET shorter == SeqsUpTo(S, n - 1)
         IN shorter \cup {Append(q, x) : q \in {r \in shorter : Len(r) = n - 1}, x \in S}

AllColumns == RequiredColumns \cup OptionalColumns

\* The sheets: up to MaxRows rows under every column, and one-row sheets with
\* one of the required columns missing.
Files ==
    {[columns |-> AllColumns, rows |-> rs, present |-> TRUE] :
        rs \in SeqsUpTo(RowPool, MaxRows) \ {<<>>}}
      \cup {[columns |-> AllColumns \ {c}, rows |-> <<r>>, present |-> TRUE] :
                c \in RequiredColumns, r \in RowPool}

-----------------------------------------------------------------------------
(* Calendar *)

IsLeap(y) == (y % 4 = 0 /\ y % 100 # 0) \/ y % 400 = 0

DaysInMonth(y, m) ==
    IF m = 2 THEN (IF IsLeap(y) THEN 29 ELSE 28)
    ELSE IF m \in {4, 6, 9, 11} THEN 30 ELSE 31

\* year, month and day of month of the day `d` days after the first of month m of year y
RECURSIVE YMDFrom(_, _, _)
YMDFrom(y, m, d) ==
    IF d < DaysInMonth(y, m) THEN [year |-> y, month |-> m, day |-> d + 1]
    ELSE IF m = 12 THEN YMDFrom(y + 1, 1, d - DaysInMonth(y, m))
    ELSE YMDFrom(y, m + 1, d - DaysInMonth(y, m))

YMD(day) == YMDFrom(2023, 1, day)

\* Timestamp.date(): the calendar date of a timestamp, its time of day dropped
DateOf(ts) == ts \div 2

\* pd.to_datetime(date): midnight of a calendar date
ToDatetime(day) == 2 * day

\* dt.to_period("M").dt.to_timestamp(): midnight of the first of the month
MonthStart(ts) ==
    IF ts = NaT THEN NaT ELSE ToDatetime(DateOf(ts) - (YMD(DateOf(ts)).day - 1))

MonthAbbr == <<"Jan", "Feb", "Mar", "Apr", "May", "Jun",
               "Jul", "Aug", "Sep", "Oct", "Nov", "Dec">>

\* dt.strftime("%b %Y")
StrfMonthYear(ts) ==
    IF ts = NaT THEN NaN
    ELSE MonthAbbr[YMD(DateOf(ts)).month] \o " " \o ToString(YMD(DateOf(ts)).year)

\* dt.to_period("M").astype(str)
PeriodStr(ts) ==
    IF ts = NaT THEN "NaT"
    ELSE LET d == YMD(DateOf(ts))
         IN ToString(d.year) \o "-" \o (IF d.month < 10 THEN "0" ELSE "") \o ToString(d.month)

-----------------------------------------------------------------------------
(* load_raw_data *)

\* pd.to_datetime on one cell: a blank cell becomes NaT
CellToDatetime(cell) == IF cell.kind = "ts" THEN cell.ts ELSE NaT

\* pd.to_datetime raises on a cell that holds text that is no date
DateParseFails(file) == \E i \in 1..Len(file.rows) : file.rows[i].Date.kind = "text"

LoadedRow(r) ==
    [Date |-> CellToDatetime(r.Date), Cost |-> r.Cost, Weight |-> r.Weight,
     Region |-> r.Region, Site |-> r.Site, Location |-> r.Location,
     Operator |-> r.Operator, LossReason |-> r.LossReason, Stage |-> r.Stage,
     Month |-> PeriodStr(CellToDatetime(r.Date)),
     MonthDate |-> NaT, MonthLabel |-> NaN, CO2 |-> 0]

\* "ok", or the exception load_raw_data raises
LoadOutcome(file) ==
    IF "Date" \notin file.columns THEN "KeyError"
    ELSE IF DateParseFails(file) THEN "ValueError"
    ELSE "ok"

load_raw_data(file) ==
    [cols |-> file.columns \cup {"Month"},
     rows |-> [i \in 1..Len(file.rows) |-> LoadedRow(file.rows[i])]]

-----------------------------------------------------------------------------
(* Sequence helpers *)

Range(q) == {q[i] : i \in 1..Len(q)}

RECURSIVE SumSeq(_, _)
\* Series.sum() of column `col`
SumSeq(rows, col) ==
    IF rows = <<>> THEN 0 ELSE rows[1][col] + SumSeq(Tail(rows), col)

RECURSIVE SortedSeq(_)
\* the integers of S in increasing order
SortedSeq(S) ==
    IF S = {} THEN <<>>
    ELSE LET m == CHOOSE x \in S : \A y \in S : x <= y
         IN <<m>> \o SortedSeq(S \ {m})

-----------------------------------------------------------------------------
(* apply_filters *)

FilterColumns == {"Region", "Site", "Location", "Operator"}

\* df[col].dropna().unique()
Options(rows, col) == {rows[i][col] : i \in 1..Len(rows)} \ {NaN}

\* the calendar dates the date widgets can be set to: the dates of the data
\* (df["Date"].min().date() and df["Date"].max().date() are the defaults)
DateChoices(rows) == {DateOf(rows[i].Date) : i \in {j \in 1..Len(rows) : rows[j].Date # NaT}}

MinDate(rows) == CHOOSE d \in DateChoices(rows) : \A e \in DateChoices(rows) : d <= e
MaxDate(rows) == CHOOSE d \in DateChoices(rows) : \A e \in DateChoices(rows) : d >= e

\* (df["Date"] >= pd.to_datetime(start_date)) & (df["Date"] <= pd.to_datetime(end_date));
\* a comparison with NaT is False
InDateRange(r, spec) ==
    /\ r.Date # NaT
    /\ r.Date >= ToDatetime(spec.start_date)
    /\ r.Date <= ToDatetime(spec.end_date)

DateFilter(rows, spec) == SelectSeq(rows, LAMBDA r : InDateRange(r, spec))

\* the filter skipped when every offered value is selected
IsinFilterUnlessAll(rows, col, selected) ==
    IF selected = {} \/ selected = Options(rows, col) THEN rows
    ELSE SelectSeq(rows, LAMBDA r : r[col] \in selected)

\* if selected: df = df[df[col].isin(selected)]
IsinFilter(rows, col, selected) ==
    IF selected = {} THEN rows ELSE SelectSeq(rows, LAMBDA r : r[col] \in selected)

FilterStep(rows, spec, p) ==
    IF p = "Date" THEN DateFilter(rows, spec) ELSE IsinFilter(rows, p, spec.selected[p])

RECURSIVE ApplyPreds(_, _, _)
\* the predicates named by `order`, applied one after the other
ApplyPreds(rows, spec, order) ==
    IF order = <<>> THEN rows
    ELSE ApplyPreds(FilterStep(rows, spec, Head(order)), spec, Tail(order))

\* the order of the statements of apply_filters
FilterOrder == <<"Date", "Region", "Site", "Location", "Operator">>

apply_filters(rows, spec) == ApplyPreds(rows, spec, FilterOrder)

\* each multiselect offers the values left by the filters before it
SelectableSpec(rows, spec) ==
    \A k \in 2..Len(FilterOrder) :
        spec.selected[FilterOrder[k]]
            \subseteq Options(ApplyPreds(rows, spec, SubSeq(FilterOrder, 1, k - 1)),
                              FilterOrder[k])

\* the widget values a user can reach on `rows`
FilterSpecs(rows) ==
    {spec \in {[start_date |-> sd, end_date |-> ed,
                selected |-> [c \in FilterColumns |->
                                 CASE c = "Region" -> rg [] c = "Site" -> si
                                   [] c = "Location" -> lo [] OTHER -> op]] :
                  sd \in DateChoices(rows), ed \in DateChoices(rows),
                  rg \in SUBSET Options(rows, "Region"), si \in SUBSET Options(rows, "Site"),
                  lo \in SUBSET Options(rows, "Location"),
                  op \in SUBSET Options(rows, "Operator")} :
        SelectableSpec(rows, spec)}

NoSpec == [start_date |-> 0, end_date |-> 0, selected |-> [c \in FilterColumns |-> {}]]

\* df[mask] is a new DataFrame object, not the one it was taken from
FilteredRefInPlace(src) == src

FilteredRef(src) == 2

-----------------------------------------------------------------------------
(* display_kpis *)

\* a / b evaluated: the quotient num/den; numpy gives inf or nan for den = 0
Divide(a, b) == [num |-> a, den |-> b, divided |-> TRUE]

\* the literal 0 of an else branch: nothing is divided
Zero == [num |-> 0, den |-> 1, divided |-> FALSE]

\* total_cost / total_weight if total_weight else 0, guarded on the wrong total
AvgCostPerKgGuardCost(total_cost, total_weight) ==
    IF total_cost # 0 THEN Divide(total_cost, total_weight) ELSE Zero

\* total_cost / total_weight if total_weight else 0
AvgCostPerKg(total_cost, total_weight) ==
    IF total_weight # 0 THEN Divide(total_cost, total_weight) ELSE Zero

\* the division a ratio evaluated, if it evaluated one
DivisionsOf(at, ratio) ==
    IF ratio.divided THEN {[at |-> at, den |-> ratio.den]} ELSE {}

\* the loss reasons in sorted order, as Series.mode() returns its ties
LossReasons == <<"Overproduction", "Spoilage">>

CountWhere(rows, Test(_)) == Cardinality({i \in 1..Len(rows) : Test(rows[i])})

\* df["Loss Reason"].mode()[0] if not df["Loss Reason"].isna().all() else "N/A"
TopLossReason(rows) ==
    IF \A i \in 1..Len(rows) : rows[i].LossReason = NaN THEN "N/A"
    ELSE LET n(v) == CountWhere(rows, LAMBDA r : r.LossReason = v)
             best == CHOOSE k \in 1..Len(LossReasons) :
                        /\ \A j \in 1..Len(LossReasons) : n(LossReasons[k]) >= n(LossReasons[j])
                        /\ \A j \in 1..(k - 1) : n(LossReasons[j]) < n(LossReasons[k])
         IN LossReasons[best]

PreConsumerCount(rows) == CountWhere(rows, LAMBDA r : r.Stage = "Pre-Consumer")

\* "ok", or the exception display_kpis raises
KpiOutcome(frame) ==
    IF "Cost" \notin frame.cols \/ "Weight" \notin frame.cols THEN "KeyError"
    ELSE IF Len(frame.rows) = 0 THEN "ZeroDivisionError"
    ELSE "ok"

KpiValues(rows) ==
    [computed |-> TRUE,
     total_cost |-> SumSeq(rows, "Cost"),
     total_weight |-> SumSeq(rows, "Weight"),
     avg_cost_per_kg |-> AvgCostPerKg(SumSeq(rows, "Cost"), SumSeq(rows, "Weight")),
     top_loss_reason |-> TopLossReason(rows),
     pre_consumer_pct |-> Divide(100 * PreConsumerCount(rows), Len(rows))]

\* the divisions display_kpis evaluates before it returns or raises
KpiDivisions(frame) ==
    IF KpiOutcome(frame) = "KeyError" THEN {}
    ELSE DivisionsOf("avg_cost_per_kg",
                     AvgCostPerKg(SumSeq(frame.rows, "Cost"), SumSeq(frame.rows, "Weight")))
            \cup {[at |-> "pre_consumer_pct", den |-> Len(frame.rows)]}

-----------------------------------------------------------------------------
(* render_visualizations: monthly comparison, cost per kg by site, CO2 *)

\* df["MonthDate"] = ..., df["MonthLabel"] = ...
WithMonthColumns(frame) ==
    [cols |-> frame.cols \cup {"MonthDate", "MonthLabel"},
     rows |-> [i \in 1..Len(frame.rows) |->
                 [frame.rows[i] EXCEPT !.MonthDate = MonthStart(frame.rows[i].Date),
                                       !.MonthLabel = StrfMonthYear(MonthStart(frame.rows[i].Date))]]]

\* df["Estimated CO2 (kg)"] = df["Weight"] * 2.5, counted in tenths of a kg
WithCO2Column(frame) ==
    [cols |-> frame.cols \cup {"Estimated CO2 (kg)"},
     rows |-> [i \in 1..Len(frame.rows) |->
                 [frame.rows[i] EXCEPT !.CO2 = frame.rows[i].Weight * 25]]]

RowsWhere(rows, Test(_)) == SelectSeq(rows, Test)

\* df.groupby(["MonthDate", "MonthLabel"]).agg({"Cost": "sum", "Weight": "sum"}).reset_index():
\* one row per key, keys in increasing order, rows without a key dropped.  The label
\* is a function of the month start, so the keys are ordered by the month start.
GroupByMonth(rows) ==
    LET starts == SortedSeq({rows[i].MonthDate : i \in 1..Len(rows)} \ {NaT})
    IN [k \in 1..Len(starts) |->
          LET grp == RowsWhere(rows, LAMBDA r : r.MonthDate = starts[k])
          IN [MonthDate |-> starts[k], MonthLabel |-> grp[1].MonthLabel,
              Cost |-> SumSeq(grp, "Cost"), Weight |-> SumSeq(grp, "Weight")]]

\* DataFrame.sort_values on the integer keys `keys`, one per row of the table:
\* rows in increasing order of key, equal keys kept in their order
SortBy(table, keys) ==
    LET n == Len(table)
        rank(i) == 1 + Cardinality({j \in 1..n : keys[j] < keys[i] \/ (keys[j] = keys[i] /\ j < i)})
    IN [k \in 1..n |-> table[CHOOSE i \in 1..n : rank(i) = k]]

\* the place of a month's abbreviation among the twelve in alphabetical order
AlphaRank == <<5, 4, 8, 1, 9, 7, 6, 2, 12, 11, 10, 3>>

\* the place of a row's "Mon YYYY" label in the lexicographic order of the labels
LabelRank(r) ==
    AlphaRank[YMD(DateOf(r.MonthDate)).month] * 10000 + YMD(DateOf(r.MonthDate)).year

\* the monthly table sorted on its label column
SortByMonthLabel(table) == SortBy(table, [i \in 1..Len(table) |-> LabelRank(table[i])])

\* monthly_chart.sort_values("MonthDate")
SortByMonthDate(table) == SortBy(table, [i \in 1..Len(table) |-> table[i].MonthDate])

MonthlyChart(rows) == SortByMonthDate(GroupByMonth(rows))

\* the sites in sorted order, as groupby orders its keys
SiteOrder == <<"A", "B">>

\* x["Cost"].sum() / x["Weight"].sum() if x["Weight"].sum() else 0
SiteRatio(cost, weight) == IF weight # 0 THEN Divide(cost, weight) ELSE Zero

\* df.groupby("Site").apply(...).reset_index(name="Cost per KG")
SiteCostChart(rows) ==
    LET present == SelectSeq(SiteOrder, LAMBDA s : \E i \in 1..Len(rows) : rows[i].Site = s)
    IN [k \in 1..Len(present) |->
          LET grp == RowsWhere(rows, LAMBDA r : r.Site = present[k])
          IN [Site |-> present[k],
              CostPerKG |-> SiteRatio(SumSeq(grp, "Cost"), SumSeq(grp, "Weight"))]]

SiteDivisions(chart) ==
    UNION {DivisionsOf("cost_per_kg_by_site", chart[k].CostPerKG) : k \in 1..Len(chart)}

-----------------------------------------------------------------------------
(* render_visualizations: forecasts *)

Horizons == {30, 60, 90}

\* df.groupby("Date")[col].sum().reset_index() with columns ds, y:
\* one row per timestamp, in increasing order, rows without a date dropped
HistoryByDate(rows, col) ==
    LET dates == SortedSeq({rows[i].Date : i \in 1..Len(rows)} \ {NaT})
    IN [k \in 1..Len(dates) |->
          [ds |-> dates[k],
           y |-> SumSeq(RowsWhere(rows, LAMBDA r : r.Date = dates[k]), col)]]

\* Prophet.fit: "ok", or the exception it raises.  Fewer than 2 rows: ValueError;
\* otherwise the fit succeeds or the optimiser fails.
FitOutcomes(history) ==
    IF Len(history) < 2 THEN {"ValueError"} ELSE {"ok", "RuntimeError"}

\* model.make_future_dataframe(periods): the history's dates, then `periods`
\* daily dates after the last of them
MakeFutureDataframe(history, periods) ==
    [k \in 1..(Len(history) + periods) |->
        IF k <= Len(history) THEN history[k].ds
        ELSE history[Len(history)].ds + ToDatetime(k - Len(history))]

\* forecast[["ds", "yhat", ...]] with type "Forecast" on every row, yhat renamed y
PlotDf(future) ==
    [k \in 1..Len(future) |-> [ds |-> future[k], y |-> <<"yhat", future[k]>>, type |-> "Forecast"]]

\* the merge with only the rows after the history tagged
PlotDfFutureOnly(future, n) ==
    [k \in 1..(Len(future) - n) |->
        [ds |-> future[n + k], y |-> <<"yhat", future[n + k]>>, type |-> "Forecast"]]

\* forecast_df with type "Actual"
ActualDf(history) ==
    [k \in 1..Len(history) |-> [ds |-> history[k].ds, y |-> <<"y", history[k].y>>, type |-> "Actual"]]

\* pd.concat([actual_df, plot_df]) without the rows predicted for the history
CombinedFutureOnly(history, periods) ==
    ActualDf(history) \o PlotDfFutureOnly(MakeFutureDataframe(history, periods), Len(history))

\* pd.concat([actual_df[["ds", "y", "type"]], plot_df[["ds", "y", "type"]]])
Combined(history, periods) ==
    ActualDf(history) \o PlotDf(MakeFutureDataframe(history, periods))

-----------------------------------------------------------------------------
(* The script run *)

EmptyHeap == [ref \in {1, 2} |-> NoFrame]

Init ==
    /\ uploaded_file \in Files \cup {NoFile}
    /\ pc = "start"
    /\ heap = EmptyHeap
    /\ df = 0
    /\ df_filtered = 0
    /\ filter_spec = NoSpec
    /\ kpis = NoKpis
    /\ divisions = {}
    /\ monthly_chart = <<>>
    /\ site_cost_chart = <<>>
    /\ forecast_days = 0
    /\ combined = <<>>
    /\ combined_w = <<>>
    /\ started = {}
    /\ reported = {}
    /\ uncaught = "none"

\* main, no file uploaded: st.info and nothing else
NoUpload ==
    /\ pc = "start"
    /\ ~uploaded_file.present
    /\ pc' = "idle"
    /\ reported' = reported \cup {"Please upload an Excel file to get started."}
    /\ UNCHANGED <<uploaded_file, heap, df, df_filtered, filter_spec, kpis, divisions,
                   monthly_chart, site_cost_chart, forecast_days, combined, combined_w,
                   started, uncaught>>

\* main: df = load_raw_data(uploaded_file)
Load ==
    /\ pc = "start"
    /\ uploaded_file.present
    /\ started' = started \cup {"load_raw_data"}
    /\ IF LoadOutcome(uploaded_file) = "ok"
       THEN /\ heap' = [heap EXCEPT ![1] = load_raw_data(uploaded_file)]
            /\ df' = 1
            /\ pc' = "loaded"
            /\ UNCHANGED uncaught
       ELSE /\ pc' = "crashed"
            /\ uncaught' = LoadOutcome(uploaded_file)
            /\ UNCHANGED <<heap, df>>
    /\ UNCHANGED <<uploaded_file, df_filtered, filter_spec, kpis, divisions, monthly_chart,
                   site_cost_chart, forecast_days, combined, combined_w, reported>>

\* main: df_filtered = apply_filters(df).  With no dated row df["Date"].min() is
\* NaT, st.date_input is given no date and the run ends there.
ApplyFilters ==
    /\ pc = "loaded"
    /\ started' = started \cup {"apply_filters"}
    /\ IF DateChoices(heap[df].rows) = {}
       THEN /\ pc' = "crashed"
            /\ uncaught' = "DateInputError"
            /\ UNCHANGED <<heap, df_filtered, filter_spec>>
       ELSE /\ \E spec \in FilterSpecs(heap[df].rows) :
                 /\ filter_spec' = spec
                 /\ heap' = [heap EXCEPT ![FilteredRef(df)] =
                                [cols |-> heap[df].cols,
                                 rows |-> apply_filters(heap[df].rows, spec)]]
                 /\ df_filtered' = FilteredRef(df)
            /\ pc' = "filtered"
            /\ UNCHANGED uncaught
    /\ UNCHANGED <<uploaded_file, df, kpis, divisions, monthly_chart, site_cost_chart,
                   forecast_days, combined, combined_w, reported>>

\* main: display_kpis(df_filtered, currency)
DisplayKpis ==
    /\ pc = "filtered"
    /\ started' = started \cup {"display_kpis"}
    /\ divisions' = divisions \cup KpiDivisions(heap[df_filtered])
    /\ IF KpiOutcome(heap[df_filtered]) = "ok"
       THEN /\ kpis' = KpiValues(heap[df_filtered].rows)
            /\ pc' = "kpis"
            /\ UNCHANGED uncaught
       ELSE /\ pc' = "crashed"
            /\ uncaught' = KpiOutcome(heap[df_filtered])
            /\ UNCHANGED kpis
    /\ UNCHANGED <<uploaded_file, heap, df, df_filtered, filter_spec, monthly_chart,
                   site_cost_chart, forecast_days, combined, combined_w, reported>>

\* render_visualizations up to the forecast section: the charts, and the columns
\* MonthDate, MonthLabel and Estimated CO2 (kg) set on the frame it was given
RenderCharts ==
    /\ pc = "kpis"
    /\ started' = started \cup {"render_visualizations"}
    /\ LET months == WithMonthColumns(heap[df_filtered])
       IN /\ monthly_chart' = MonthlyChart(months.rows)
          /\ site_cost_chart' = SiteCostChart(months.rows)
          /\ divisions' = divisions \cup SiteDivisions(SiteCostChart(months.rows))
          /\ heap' = [heap EXCEPT ![df_filtered] = WithCO2Column(months)]
    /\ pc' = "charts"
    /\ UNCHANGED <<uploaded_file, df, df_filtered, filter_spec, kpis, forecast_days,
                   combined, combined_w, reported, uncaught>>

\* render_visualizations: the cost forecast.  Its try catches ImportError only,
\* so what Prophet raises leaves render_visualizations.
CostForecast ==
    /\ pc = "charts"
    /\ started' = started \cup {"cost_forecast"}
    /\ \E days \in Horizons :
         \E outcome \in FitOutcomes(HistoryByDate(heap[df_filtered].rows, "Cost")) :
            /\ forecast_days' = days
            /\ IF outcome = "ok"
               THEN /\ combined' = Combined(HistoryByDate(heap[df_filtered].rows, "Cost"), days)
                    /\ pc' = "cost_done"
                    /\ UNCHANGED uncaught
               ELSE /\ pc' = "crashed"
                    /\ uncaught' = outcome
                    /\ UNCHANGED combined
    /\ UNCHANGED <<uploaded_file, heap, df, df_filtered, filter_spec, kpis, divisions,
                   monthly_chart, site_cost_chart, combined_w, reported>>

\* render_visualizations: the weight forecast.  Its try catches every Exception.
WeightForecast ==
    /\ pc = "cost_done"
    /\ started' = started \cup {"weight_forecast"}
    /\ \E outcome \in FitOutcomes(HistoryByDate(heap[df_filtered].rows, "Weight")) :
         IF outcome = "ok"
         THEN /\ combined_w' = Combined(HistoryByDate(heap[df_filtered].rows, "Weight"),
                                        forecast_days)
              /\ UNCHANGED reported
         ELSE /\ reported' = reported \cup {"Weight forecasting failed"}
              /\ UNCHANGED combined_w
    /\ pc' = "done"
    /\ UNCHANGED <<uploaded_file, heap, df, df_filtered, filter_spec, kpis, divisions,
                   monthly_chart, site_cost_chart, forecast_days, combined, uncaught>>

\* Streamlit runs the script again from the top on the next interaction
Rerun ==
    /\ pc \in {"idle", "done", "crashed"}
    /\ pc' = "start"
    /\ heap' = EmptyHeap
    /\ df' = 0
    /\ df_filtered' = 0
    /\ filter_spec' = NoSpec
    /\ kpis' = NoKpis
    /\ divisions' = {}
    /\ monthly_chart' = <<>>
    /\ site_cost_chart' = <<>>
    /\ forecast_days' = 0
    /\ combined' = <<>>
    /\ combined_w' = <<>>
    /\ started' = {}
    /\ reported' = {}
    /\ uncaught' = "none"
    /\ UNCHANGED uploaded_file

Next ==
    \/ NoUpload
    \/ Load
    \/ ApplyFilters
    \/ DisplayKpis
    \/ RenderCharts
    \/ CostForecast
    \/ WeightForecast
    \/ Rerun

Spec == Init /\ [][Next]_vars

-----------------------------------------------------------------------------
(* Properties *)

Source == heap[df].rows
View == heap[df_filtered].rows

RECURSIVE EveryOrderGives(_, _, _, _)
\* the predicates of `remaining`, applied to `rows` one after the other in any
\* order, give `result`
EveryOrderGives(rows, spec, remaining, result) ==
    IF remaining = {} THEN rows = result
    ELSE \A p \in remaining :
            EveryOrderGives(FilterStep(rows, spec, p), spec, remaining \ {p}, result)

\* C1: the view apply_filters returns is what the date predicate and the four
\* categorical predicates give in any order of application; in particular the
\* region filter then the site filter gives the rows of the site filter then
\* the region filter.
C1_FiltersCommute ==
    pc = "filtered" =>
        /\ EveryOrderGives(Source, filter_spec, Range(FilterOrder), View)
        /\ IsinFilter(IsinFilter(Source, "Region", filter_spec.selected["Region"]),
                      "Site", filter_spec.selected["Site"])
             = IsinFilter(IsinFilter(Source, "Site", filter_spec.selected["Site"]),
                          "Region", filter_spec.selected["Region"])

C1_Witness ==
    /\ pc = "filtered"
    /\ filter_spec.selected["Region"] # {}
    /\ filter_spec.selected["Location"] # {}
    /\ View # <<>>
    /\ Len(View) < Len(IsinFilter(Source, "Region", filter_spec.selected["Region"]))
    /\ Len(View) < Len(IsinFilter(Source, "Location", filter_spec.selected["Location"]))

AllSelectionsEmpty == \A c \in FilterColumns : filter_spec.selected[c] = {}

\* C2: with the four selections empty and the date range set to the first and
\* last date of the data, the filtered view is the loaded dataset, row for row.
C2_EmptySpecIsIdentity ==
    (/\ pc = "filtered"
     /\ AllSelectionsEmpty
     /\ filter_spec.start_date = MinDate(Source)
     /\ filter_spec.end_date = MaxDate(Source))
        => View = Source

\* C3: on an empty filtered view display_kpis returns, with preConsumerPct = 0,
\* totalCost = 0, totalWeight = 0, avgCostPerKg = 0 and topLossReason = "N/A".
C3_EmptyViewKpis ==
    (/\ "display_kpis" \in started
     /\ RequiredColumns \subseteq heap[df_filtered].cols
     /\ View = <<>>)
        => /\ uncaught = "none"
           /\ kpis.computed
           /\ kpis.pre_consumer_pct.num = 0
           /\ kpis.total_cost = 0
           /\ kpis.total_weight = 0
           /\ kpis.avg_cost_per_kg.num = 0
           /\ kpis.top_loss_reason = "N/A"

SiteRows(site) == RowsWhere(View, LAMBDA r : r.Site = site)

\* the ratio is cost / weight when weight > 0 and the literal 0 otherwise
IsSafeRatio(ratio, cost, weight) ==
    IF weight > 0
    THEN ratio.divided /\ ratio.num = cost /\ ratio.den = weight
    ELSE ratio = Zero

\* C4: avgCostPerKg is totalCost / totalWeight when totalWeight > 0 and 0
\* otherwise; each site's cost per kg is its cost sum over its weight sum when
\* the weight sum is not 0 and 0 otherwise; neither ever divides by zero.
C4_RatiosAreZeroSafe ==
    /\ kpis.computed =>
          IsSafeRatio(kpis.avg_cost_per_kg, SumSeq(View, "Cost"), SumSeq(View, "Weight"))
    /\ "render_visualizations" \in started =>
          /\ {site_cost_chart[k].Site : k \in 1..Len(site_cost_chart)} = Options(View, "Site")
          /\ \A k \in 1..Len(site_cost_chart) :
                IsSafeRatio(site_cost_chart[k].CostPerKG,
                            SumSeq(SiteRows(site_cost_chart[k].Site), "Cost"),
                            SumSeq(SiteRows(site_cost_chart[k].Site), "Weight"))
    /\ \A d \in divisions :
          d.at \in {"avg_cost_per_kg", "cost_per_kg_by_site"} => d.den # 0

\* the record (cost = 10, weight = 0) alone, and a site that does divide
C4_Witness ==
    /\ pc = "charts"
    /\ Len(View) = 1
    /\ kpis.total_cost = 10
    /\ kpis.total_weight = 0
    /\ kpis.avg_cost_per_kg = Zero
    /\ site_cost_chart = <<[Site |-> "A", CostPerKG |-> Zero]>>

C4_WitnessDivides ==
    /\ pc = "charts"
    /\ kpis.avg_cost_per_kg.divided
    /\ \E k \in 1..Len(site_cost_chart) : site_cost_chart[k].CostPerKG.divided
    /\ \E k \in 1..Len(site_cost_chart) : ~site_cost_chart[k].CostPerKG.divided

HistoryDates == {View[i].Date : i \in 1..Len(View)} \ {NaT}

Increasing(series, from, to) ==
    \A i \in from..(to - 1) : series[i].ds < series[i + 1].ds

NonDecreasing(series) ==
    \A i \in 1..(Len(series) - 1) : series[i].ds <= series[i + 1].ds

\* the first n points are the Actual points, one per historical date, in date order
ActualBlock(series, n) ==
    /\ Len(series) >= n
    /\ \A i \in 1..n : series[i].type = "Actual"
    /\ {series[i].ds : i \in 1..n} = HistoryDates
    /\ Increasing(series, 1, n)

\* n Actual points, then exactly h Forecast points, all later than the last Actual
MergedAsClaimed(series, n, h) ==
    /\ ActualBlock(series, n)
    /\ Len(series) = n + h
    /\ \A i \in (n + 1)..Len(series) :
          series[i].type = "Forecast" /\ series[i].ds > series[n].ds
    /\ NonDecreasing(series)

\* n Actual points, then n + h Forecast points: the historical dates again,
\* then h daily dates after the last of them
MergedAsBuilt(series, n, h) ==
    /\ ActualBlock(series, n)
    /\ Len(series) = n + n + h
    /\ \A i \in (n + 1)..Len(series) : series[i].type = "Forecast"
    /\ \A i \in 1..n : series[n + i].ds = series[i].ds
    /\ \A i \in 1..h : series[n + n + i].ds = series[n].ds + ToDatetime(i)
    /\ Increasing(series, n + 1, Len(series))
    /\ ~NonDecreasing(series)

C6_CostFailureDoesNotBlockWeight ==
    ("cost_forecast" \in started /\ combined = <<>> /\ pc \in {"crashed", "done"})
        => "weight_forecast" \in started

\* C7: with the start date after the end date a validation error is reported,
\* the filter is not applied and display_kpis is not run on its result.
C7_InvertedRangeRejected ==
    ("apply_filters" \in started /\ filter_spec.start_date > filter_spec.end_date)
        => /\ reported # {}
           /\ df_filtered = 0
           /\ "display_kpis" \notin started

LaterSteps ==
    {"apply_filters", "display_kpis", "render_visualizations", "cost_forecast",
     "weight_forecast"}

\* C8: a sheet without Date, Cost or Weight, or with a date that cannot be
\* parsed, gives no dataset, and no later step is started on it.
C8_LoadIsAllOrNothing ==
    (/\ uploaded_file.present
     /\ \/ ~(RequiredColumns \subseteq uploaded_file.columns)
        \/ DateParseFails(uploaded_file))
        => /\ df = 0
           /\ started \cap LaterSteps = {}

\* C9: whatever steps have run, the loaded dataset is as load_raw_data returned
\* it: same rows, same order, same columns and values.
C9_SourceNeverChanged ==
    df # 0 => heap[df] = load_raw_data(uploaded_file)

C9_Witness ==
    /\ pc = "done"
    /\ {"MonthDate", "MonthLabel", "Estimated CO2 (kg)"} \subseteq heap[df_filtered].cols
    /\ Len(View) < Len(Source)
    /\ \E i \in 1..Len(View) : View[i].CO2 # 0 /\ View[i].MonthDate # NaT
    /\ "MonthDate" \notin heap[df].cols

ViewMonths == {MonthStart(View[i].Date) : i \in 1..Len(View)} \ {NaT}

\* C10: the monthly table has one row per calendar month of the view, each keyed
\* by the first of its month, in strictly increasing order of that date.
C10_MonthlyChronological ==
    "render_visualizations" \in started =>
        /\ {monthly_chart[k].MonthDate : k \in 1..Len(monthly_chart)} = ViewMonths
        /\ Len(monthly_chart) = Cardinality(ViewMonths)
        /\ \A k \in 1..Len(monthly_chart) :
              /\ YMD(DateOf(monthly_chart[k].MonthDate)).day = 1
              /\ monthly_chart[k].MonthDate % 2 = 0
              /\ monthly_chart[k].MonthLabel = StrfMonthYear(monthly_chart[k].MonthDate)
        /\ \A i, j \in 1..Len(monthly_chart) :
              i < j => monthly_chart[i].MonthDate < monthly_chart[j].MonthDate

\* Dec 2023 before Jan 2024, and Jan 2024 before Feb 2024 although "Feb" sorts first
C10_Witness ==
    /\ pc = "charts"
    /\ Len(monthly_chart) = 3
    /\ monthly_chart[1].MonthLabel = "Dec 2023"
    /\ monthly_chart[2].MonthLabel = "Jan 2024"
    /\ monthly_chart[3].MonthLabel = "Feb 2024"

====
